---- MODULE Spec2Model ----
(***************************************************************************)
(* Frame AI: the /upload content-hash cache and streaming relay, the       *)
(* analysis_results table, the image endpoints and the metric comparator.  *)
(*                                                                         *)
(* Strings that the code inspects (content types, file names, analysis     *)
(* text) are sequences of tokens, so that startswith, splitext, split and  *)
(* replace are computed and not assumed.  None / NULL / "" is <<>>.        *)
(***************************************************************************)
EXTENDS Integers, Sequences, FiniteSets, TLC

\* ------------------------------------------------------------------ bounds
MaxReq == 2        \* /upload requests in one behaviour
MaxChunks == 2     \* chunks one analyzer stream yields at most
MaxClock == 1      \* seconds CURRENT_TIMESTAMP advances in one behaviour

Reqs == 1..MaxReq

\* --------------------------------------------------------------- input sets
ContentSeq == <<"img1", "img2">>
Contents == {ContentSeq[i] : i \in 1..Len(ContentSeq)}
IPSeq == <<"ip1", "ip2">>
IPs == {IPSeq[i] : i \in 1..Len(IPSeq)}
\* a file name is <<stem, extension>>; <<>> is a missing file name
FileNames == {<<"a", ".jpg">>, <<"b", ".png">>}
\* a content type is <<type "/", subtype>>; <<>> is a missing or empty one
ImageType == <<"image/", "png">>
BadTypes == {<<>>, <<"text/", "plain">>, <<"image">>}
ContentTypes == BadTypes \cup {ImageType}
\* tokens of analysis text: the detailed-analysis prefix, the JSON marker, prose
PREFIX == "DETAILED ANALYSIS: "
MARKER == " *#123JSON PARSING START: "
\* the chunks an analyzer stream may yield
ChunkVals == {<<PREFIX, "x">>, <<"y", MARKER, "j">>}

VARIABLES
    pc,           \* position of each /upload request
    up,           \* locals of each /upload handler
    out,          \* events each response stream has carried
    status,       \* HTTP status of each /upload (0: none yet)
    hist,         \* history of each request (what it called, what it saw)
    cache_stats,  \* main.cache_stats
    table,        \* rows of analysis_results
    nextId,       \* next AUTOINCREMENT id
    stored,       \* history: per id, the content analysed and the text stored
    files,        \* static/uploaded_images: set of [path, data, writes]
    tempfiles,    \* requests whose temporary file exists
    now,          \* CURRENT_TIMESTAMP, in seconds
    tieBreak,     \* which of several rows of equal created_at LIMIT 1 keeps
    dbcall,       \* the last direct call of an AnalysisDatabase method
    cmp,          \* a call of compare_image_metrics: its two images, its result
    edit,         \* the /image/edit or /image/generate request being served
    val           \* a call of validate_json_structure: its arguments, its outcome

upvars == <<pc, up, out, status, hist, cache_stats, files, tempfiles>>
dbvars == <<table, nextId, stored, now, tieBreak>>
auxvars == <<dbcall, cmp, edit, val>>
vars == <<upvars, dbvars, auxvars>>

\* ------------------------------------------------------------ pure helpers
RECURSIVE Flatten(_)
Flatten(ss) == IF ss = <<>> THEN <<>> ELSE Head(ss) \o Flatten(Tail(ss))

RECURSIVE Remove(_, _)
\* str.replace(tok, "")
Remove(s, tok) ==
    IF s = <<>> THEN <<>>
    ELSE IF Head(s) = tok THEN Remove(Tail(s), tok)
         ELSE <<Head(s)>> \o Remove(Tail(s), tok)

Contains(s, tok) == \E i \in 1..Len(s) : s[i] = tok
FirstIndex(s, tok) == CHOOSE i \in 1..Len(s) : s[i] = tok /\ \A j \in 1..(i-1) : s[j] # tok
StartsWith(s, tok) == Len(s) > 0 /\ s[1] = tok

\* main.py:117  file.content_type and file.content_type.startswith("image/")
IsImageTypeNoPrefixCheck(ct) == ct # <<>>
IsImageType(ct) == ct # <<>> /\ StartsWith(ct, "image/")

\* hashlib.sha256(file_content).hexdigest(): injective on Contents
get_content_hash_colliding(c) == "sha_1"
\* AnalysisDatabase.get_content_hash: the MD5 digest the database class offers
md5_content_hash(h) == IF h = "sha_1" THEN "md5_1" ELSE "md5_2"
get_content_hash(c) == IF c = "img1" THEN "sha_1" ELSE "sha_2"

\* os.path.splitext(file.filename)[1] if file.filename else ".jpg"
file_extension(fn) == IF fn # <<>> THEN fn[2] ELSE ".jpg"
\* os.path.join(upload_dir, f"{file_hash}{file_extension}")
stored_image_path(h, fn) == <<h, file_extension(fn)>>
\* file.filename or "unknown"
filename_or_unknown(fn) == IF fn # <<>> THEN fn ELSE <<"unknown", "">>

PathExists(fs, p) == \E f \in fs : f.path = p
\* main.py:156-158: the upload is written to its permanent path only if no file
\* is there; writes counts how often the file has been written
StoreImageAlways(fs, path, content) ==
    LET old == {f \in fs : f.path = path}
        n == IF old = {} THEN 0 ELSE (CHOOSE f \in old : TRUE).writes
    IN (fs \ old) \cup {[path |-> path, data |-> content, writes |-> n + 1]}
StoreImage(fs, path, content) ==
    IF PathExists(fs, path) THEN fs
    ELSE fs \cup {[path |-> path, data |-> content, writes |-> 1]}

\* ------------------------------------------------------------ the database
\* json.dumps / json.loads of the exif dictionary
JsonDumps(d) == <<"json", d>>
JsonLoads(s) == <<"dict", s[2]>>

\* store_analysis: INSERT OR REPLACE under UNIQUE(ip_address, file_hash)
StoreRowsLegacyHash(tbl, id, ts, ip, fn, h, text, exif, path) ==
    LET kept == {row \in tbl : ~(row.ip_address = ip /\ row.file_hash = md5_content_hash(h))}
    IN kept \cup {[id |-> id, ip_address |-> ip, filename |-> fn,
                   file_hash |-> md5_content_hash(h), analysis_text |-> text,
                   exif_data |-> IF exif # <<>> THEN JsonDumps(exif[1]) ELSE <<>>,
                   image_path |-> path, created_at |-> ts]}
StoreRowsNoReplace(tbl, id, ts, ip, fn, h, text, exif, path) ==
    tbl \cup {[id |-> id, ip_address |-> ip, filename |-> fn, file_hash |-> h,
               analysis_text |-> text,
               exif_data |-> IF exif # <<>> THEN JsonDumps(exif[1]) ELSE <<>>,
               image_path |-> path, created_at |-> ts]}
StoreRows(tbl, id, ts, ip, fn, h, text, exif, path) ==
    LET exif_json == IF exif # <<>> THEN JsonDumps(exif[1]) ELSE <<>>
        kept == {row \in tbl : ~(row.ip_address = ip /\ row.file_hash = h)}
    IN kept \cup {[id |-> id, ip_address |-> ip, filename |-> fn, file_hash |-> h,
                   analysis_text |-> text, exif_data |-> exif_json,
                   image_path |-> path, created_at |-> ts]}

\* SELECT ... WHERE file_hash = ? ORDER BY created_at DESC LIMIT 1
SelectByHashOldest(tbl, h, tb) ==
    LET match == {row \in tbl : row.file_hash = h}
        oldest == {row \in match : \A o \in match : row.created_at <= o.created_at}
    IN IF match = {} THEN <<>>
       ELSE <<CHOOSE row \in oldest : \A o \in oldest : row.id <= o.id>>
SelectByHash(tbl, h, tb) ==
    LET match == {row \in tbl : row.file_hash = h}
        newest == {row \in match : \A o \in match : o.created_at <= row.created_at}
    IN IF match = {} THEN <<>>
       ELSE <<IF tb = "low_id"
              THEN CHOOSE row \in newest : \A o \in newest : row.id <= o.id
              ELSE CHOOSE row \in newest : \A o \in newest : row.id >= o.id>>

\* the dictionary get_analysis_by_hash builds from the row (no file_hash column)
RowDict(row) ==
    [id |-> row.id, ip_address |-> row.ip_address, filename |-> row.filename,
     analysis_text |-> row.analysis_text,
     exif_data |-> IF row.exif_data # <<>> THEN JsonLoads(row.exif_data) ELSE <<>>,
     image_path |-> row.image_path, created_at |-> row.created_at]

get_analysis_by_hash(tbl, h, tb) ==
    LET got == SelectByHash(tbl, h, tb)
    IN IF got = <<>> THEN <<>> ELSE <<RowDict(got[1])>>

\* main.py:124-137: the cache lookup of /upload, keyed by the content hash alone
CacheLookupByNameAndIp(tbl, content, ip, fn, tb) ==
    LET match == {row \in tbl : row.ip_address = ip /\ row.filename = fn}
    IN IF match = {} THEN <<>>
       ELSE <<RowDict(CHOOSE row \in match : \A o \in match : row.id >= o.id)>>
CacheLookup(tbl, content, ip, fn, tb) ==
    get_analysis_by_hash(tbl, get_content_hash(content), tb)

\* ------------------------------------------------------------ stream events
HashEvent(h) == [line |-> "file_hash", file_hash |-> h]
NameEvent(r) == [line |-> "file_name", file_name |-> <<"tmp", r>>]
DataEvent(type, content) == [line |-> "data", type |-> type, content |-> content]
DoneEvent == [line |-> "data", type |-> "done"]
ChunkEvent(chunk) == DataEvent("chunk", chunk)

IsChunk(e) == e.line = "data" /\ e.type = "chunk"
\* the contents of the 'chunk' events of a stream, in order
ChunkContents(evs) ==
    LET idx == {i \in 1..Len(evs) : IsChunk(evs[i])}
        RECURSIVE Take(_)
        Take(i) == IF i > Len(evs) THEN <<>>
                   ELSE IF i \in idx THEN <<evs[i].content>> \o Take(i + 1)
                   ELSE Take(i + 1)
    IN Take(1)

\* main.py:183-205: the chunk events that replay a cached analysis text
CachedChunks(full) ==
    IF Contains(full, MARKER)
    THEN LET i == FirstIndex(full, MARKER)
             detailed_part == SubSeq(full, 1, i - 1)
             json_part == SubSeq(full, i + 1, Len(full))
         IN (IF StartsWith(detailed_part, PREFIX)
             THEN <<ChunkEvent(<<PREFIX>> \o Remove(detailed_part, PREFIX))>>
             ELSE <<>>)
            \o <<ChunkEvent(<<MARKER>>), ChunkEvent(json_part)>>
    ELSE <<ChunkEvent(full)>>

\* main.py:179-207: the data events of the cache-hit path
HitEventsChunksFirst(full) ==
    CachedChunks(full)
    \o <<DataEvent("cache_hit", <<"Found previous analysis for this image">>),
         DataEvent("analyzing", <<"Loading cached analysis...">>),
         DoneEvent>>
HitEvents(full) ==
    <<DataEvent("cache_hit", <<"Found previous analysis for this image">>),
      DataEvent("analyzing", <<"Loading cached analysis...">>)>>
    \o CachedChunks(full)
    \o <<DoneEvent>>

\* ------------------------------------------------------------------ initial
NoLocals ==
    [content |-> "", ip |-> "", filename |-> <<>>, ctype |-> <<>>,
     bodyRead |-> FALSE, file_hash |-> "", cached |-> <<>>,
     analysis_chunks |-> <<>>]
NoHist ==
    [lookups |-> 0, lostLookup |-> FALSE, hadRow |-> FALSE, priorStored |-> FALSE,
     seenVer |-> 0, analyzerCalls |-> 0, requested |-> 0, analyzerRaised |-> FALSE,
     storeCalls |-> 0, storeOk |-> FALSE]

NoCall == [op |-> "none"]
NoCmp == [original |-> <<>>, edited |-> <<>>, result |-> [kind |-> "none"]]
NoEdit ==
    [pc |-> "idle", kind |-> "", file_hash |-> "", cached |-> <<>>,
     llmCalls |-> 0, genCalls |-> 0, cmpCalls |-> 0, raised |-> "none",
     genImage |-> FALSE, outExists |-> FALSE,
     tempLeft |-> FALSE, resp |-> [kind |-> "none"]]
NoVal == [text |-> <<>>, schema |-> <<>>, result |-> [kind |-> "none"]]
InitAux ==
    /\ val = NoVal
    /\ dbcall = NoCall
    /\ cmp = NoCmp
    /\ edit = NoEdit

InitUploads ==
    /\ pc = [r \in Reqs |-> "idle"]
    /\ up = [r \in Reqs |-> NoLocals]
    /\ out = [r \in Reqs |-> <<>>]
    /\ status = [r \in Reqs |-> 0]
    /\ hist = [r \in Reqs |-> NoHist]
    /\ cache_stats = [hits |-> 0, misses |-> 0, uploads |-> 0]
    /\ files = {}
    /\ tempfiles = {}

InitDb ==
    /\ table = {}
    /\ nextId = 1
    /\ stored = <<>>
    /\ now = 0
    /\ tieBreak \in {"low_id", "high_id"}

Init == InitUploads /\ InitDb /\ InitAux

\* the process starts on the analysis.db and the upload directory an earlier run
\* left: one analysis, stored for img1 by ip1 as a.jpg
WarmText == <<PREFIX, "w", MARKER, "j">>
InitWarm ==
    /\ pc = [r \in Reqs |-> "idle"]
    /\ up = [r \in Reqs |-> NoLocals]
    /\ out = [r \in Reqs |-> <<>>]
    /\ status = [r \in Reqs |-> 0]
    /\ hist = [r \in Reqs |-> NoHist]
    /\ cache_stats = [hits |-> 0, misses |-> 0, uploads |-> 0]
    /\ tempfiles = {}
    /\ LET h == get_content_hash("img1")
           fn == <<"a", ".jpg">>
       IN /\ table = StoreRows({}, 1, 0, "ip1", fn, h, WarmText, <<"exif_context">>,
                               stored_image_path(h, fn))
          /\ files = {[path |-> stored_image_path(h, fn), data |-> "img1", writes |-> 1]}
    /\ nextId = 2
    /\ stored = <<[content |-> "img1", text |-> WarmText]>>
    /\ now = 0
    /\ tieBreak \in {"low_id", "high_id"}
    /\ InitAux

\* ------------------------------------------------------------------ /upload
\* requests are numbered in the order they arrive
\* contents and client addresses are interchangeable: they are named in the
\* order in which they first appear
\* main.py:211-216, 248-252: os.unlink(temp_file_path) at the end of either path;
\* it can only fail when the file is not there to delete
os_unlink_skipped(tf, r) == tf
os_unlink(tf, r) == tf \ {r}

InOrder(seq, used, x) ==
    \A i \in 1..Len(seq) : seq[i] = x => \A j \in 1..(i - 1) : seq[j] \in used
Accepted == {q \in Reqs : pc[q] \notin {"idle", "rejected"}}
UsedContents ==
    {up[q].content : q \in Accepted} \cup {stored[i].content : i \in DOMAIN stored}
UsedIPs == {up[q].ip : q \in Accepted} \cup {row.ip_address : row \in table}

MayArrive(r) == pc[r] = "idle" /\ \A q \in 1..(r - 1) : pc[q] # "idle"

\* main.py:117-118: not an image: HTTP 400
UploadReject(r) ==
    /\ MayArrive(r)
    /\ \E ct \in ContentTypes :
         /\ ~IsImageType(ct)
         /\ up' = [up EXCEPT ![r] = [NoLocals EXCEPT !.ctype = ct]]
    /\ status' = [status EXCEPT ![r] = 400]
    /\ pc' = [pc EXCEPT ![r] = "rejected"]
    /\ UNCHANGED <<out, hist, cache_stats, files, tempfiles, dbvars, auxvars>>

\* a finished miss-path upload of content c that stored at least one chunk
StoredBy(q, c) ==
    /\ pc[q] = "done"
    /\ up[q].content = c
    /\ up[q].cached = <<>>
    /\ up[q].analysis_chunks # <<>>
    /\ hist[q].storeOk

\* main.py:121-161: the handler's work on one accepted upload
UploadBeginWith(r, ct, c, ip, fn, dbOk) ==
    LET h == get_content_hash(c)
        cached_analysis == IF dbOk THEN CacheLookup(table, c, ip, fn, tieBreak)
                           ELSE <<>>
        path == stored_image_path(h, fn)
    IN /\ IsImageType(ct)
       /\ up' = [up EXCEPT ![r] = [NoLocals EXCEPT !.content = c, !.ip = ip,
                                     !.filename = fn, !.ctype = ct,
                                     !.bodyRead = TRUE, !.file_hash = h,
                                     !.cached = cached_analysis]]
       /\ cache_stats' =
            [uploads |-> cache_stats.uploads + 1,
             hits |-> cache_stats.hits + (IF cached_analysis # <<>> THEN 1 ELSE 0),
             misses |-> cache_stats.misses + (IF cached_analysis # <<>> THEN 0 ELSE 1)]
       /\ files' = StoreImage(files, path, c)
       /\ hist' = [hist EXCEPT ![r] =
            [NoHist EXCEPT !.lookups = 1,
                           !.lostLookup = (~dbOk /\ \E row \in table : row.file_hash = h),
                           !.hadRow = (\E row \in table : row.file_hash = h),
                           !.priorStored = (\E q \in Reqs : StoredBy(q, c)),
                           !.seenVer = nextId]]

\* main.py:117-170: read, hash, count, look up, keep the image, write the temp file
UploadBegin(r) ==
    /\ MayArrive(r)
    /\ \E ct \in ContentTypes, c \in Contents, ip \in IPs, fn \in FileNames,
          dbOk \in BOOLEAN :
         /\ InOrder(ContentSeq, UsedContents, c)
         /\ InOrder(IPSeq, UsedIPs, ip)
         /\ UploadBeginWith(r, ct, c, ip, fn, dbOk)
    /\ tempfiles' = tempfiles \cup {r}
    /\ status' = [status EXCEPT ![r] = 200]
    /\ pc' = [pc EXCEPT ![r] = "stream"]
    /\ UNCHANGED <<out, dbvars, auxvars>>

\* main.py:173-174: the two header events
StreamHeader(r) ==
    /\ pc[r] = "stream"
    /\ out' = [out EXCEPT ![r] = @ \o <<HashEvent(up[r].file_hash), NameEvent(r)>>]
    /\ pc' = [pc EXCEPT ![r] = IF up[r].cached # <<>> THEN "hit" ELSE "miss"]
    /\ UNCHANGED <<up, status, hist, cache_stats, files, tempfiles, dbvars, auxvars>>

\* main.py:176-217: replay the cached analysis, unlink the temp file
HitReplay(r) ==
    /\ pc[r] = "hit"
    /\ out' = [out EXCEPT ![r] = @ \o HitEvents(up[r].cached[1].analysis_text)]
    /\ tempfiles' = os_unlink(tempfiles, r)
    /\ pc' = [pc EXCEPT ![r] = "done"]
    /\ UNCHANGED <<up, status, hist, cache_stats, files, dbvars, auxvars>>

\* main.py:220-223: 'analyzing', then the analyzer is asked for its first chunk
MissAnalyzing(r) ==
    /\ pc[r] = "miss"
    /\ out' = [out EXCEPT ![r] = @ \o <<DataEvent("analyzing", <<"Analyzing new image...">>)>>]
    /\ hist' = [hist EXCEPT ![r].analyzerCalls = @ + 1, ![r].requested = @ + 1]
    /\ pc' = [pc EXCEPT ![r] = "await_chunk"]
    /\ UNCHANGED <<up, status, cache_stats, files, tempfiles, dbvars, auxvars>>

\* main.py:223-224: the analyzer yields a chunk; it is appended
AnalyzerYield(r) ==
    /\ pc[r] = "await_chunk"
    /\ Len(up[r].analysis_chunks) < MaxChunks
    /\ \E chunk \in ChunkVals :
         up' = [up EXCEPT ![r].analysis_chunks = Append(@, chunk)]
    /\ pc' = [pc EXCEPT ![r] = "emit"]
    /\ UNCHANGED <<out, status, hist, cache_stats, files, tempfiles, dbvars, auxvars>>

\* main.py:226: the chunk is sent as a 'chunk' data event as soon as it arrived
RelayChunkAtEnd(evs, chunk) == evs
RelayChunk(evs, chunk) == Append(evs, ChunkEvent(chunk))

\* main.py:226, 223: the chunk is emitted, then the next one is asked for
EmitChunk(r) ==
    /\ pc[r] = "emit"
    /\ LET chunk == up[r].analysis_chunks[Len(up[r].analysis_chunks)]
       IN out' = [out EXCEPT ![r] = RelayChunk(@, chunk)]
    /\ hist' = [hist EXCEPT ![r].requested = @ + 1]
    /\ pc' = [pc EXCEPT ![r] = "await_chunk"]
    /\ UNCHANGED <<up, status, cache_stats, files, tempfiles, dbvars, auxvars>>

\* main.py:223: the analyzer's stream ends
AnalyzerEnd(r) ==
    /\ pc[r] = "await_chunk"
    /\ pc' = [pc EXCEPT ![r] = "finally"]
    /\ UNCHANGED <<up, out, status, hist, cache_stats, files, tempfiles, dbvars, auxvars>>

\* main.py:227-228: the analyzer raises; an 'error' event is emitted
AnalyzerRaise(r) ==
    /\ pc[r] = "await_chunk"
    /\ out' = [out EXCEPT ![r] = Append(@, DataEvent("error", <<"analyzer failed">>))]
    /\ hist' = [hist EXCEPT ![r].analyzerRaised = TRUE]
    /\ pc' = [pc EXCEPT ![r] = "finally"]
    /\ UNCHANGED <<up, status, cache_stats, files, tempfiles, dbvars, auxvars>>

\* main.py:229-253: store the analysis if any, unlink the temp file, 'done'
MissFinally(r) ==
    /\ pc[r] = "finally"
    /\ \E exifOk \in BOOLEAN, dbOk \in BOOLEAN :
         LET chunks == up[r].analysis_chunks
             full_analysis == Flatten(chunks)
             path == stored_image_path(up[r].file_hash, up[r].filename)
             called == chunks # <<>> /\ exifOk
             done == called /\ dbOk
         IN /\ (chunks = <<>> => exifOk /\ dbOk)
            /\ (~exifOk => dbOk)
            /\ table' = IF done
                        THEN StoreRows(table, nextId, now, up[r].ip,
                                       filename_or_unknown(up[r].filename),
                                       up[r].file_hash, full_analysis,
                                       <<"exif_context">>, path)
                        ELSE table
            /\ nextId' = IF done THEN nextId + 1 ELSE nextId
            /\ stored' = IF done
                         THEN Append(stored, [content |-> up[r].content,
                                              text |-> full_analysis])
                         ELSE stored
            /\ hist' = [hist EXCEPT ![r].storeCalls = IF called THEN 1 ELSE 0,
                                    ![r].storeOk = done]
    /\ tempfiles' = os_unlink(tempfiles, r)
    /\ out' = [out EXCEPT ![r] = Append(@, DoneEvent)]
    /\ pc' = [pc EXCEPT ![r] = "done"]
    /\ UNCHANGED <<up, status, cache_stats, files, now, tieBreak, auxvars>>

\* a second passes on the database's clock (observable only once a row carries
\* the current second)
Tick ==
    /\ now < MaxClock
    /\ \E row \in table : row.created_at = now
    /\ now' = now + 1
    /\ UNCHANGED <<upvars, table, nextId, stored, tieBreak, auxvars>>

Next ==
    \/ \E r \in Reqs : UploadReject(r)
    \/ \E r \in Reqs : UploadBegin(r)
    \/ \E r \in Reqs : StreamHeader(r)
    \/ \E r \in Reqs : HitReplay(r)
    \/ \E r \in Reqs : MissAnalyzing(r)
    \/ \E r \in Reqs : AnalyzerYield(r)
    \/ \E r \in Reqs : EmitChunk(r)
    \/ \E r \in Reqs : AnalyzerEnd(r)
    \/ \E r \in Reqs : AnalyzerRaise(r)
    \/ \E r \in Reqs : MissFinally(r)
    \/ Tick

Spec == Init /\ [][Next]_vars
SpecWarm == InitWarm /\ [][Next]_vars

\* ------------------------------------------------- compare_image_metrics
\* Scores are kept in hundredths, the unit round(x, 2) leaves.  An image is
\* <<>> (it cannot be opened) or <<[s, d, c]>>: its sharpness, dynamic range and
\* colour richness, each already rounded.
MaxScore == 3
Scores == 0..MaxScore
Images ==
    {<<>>} \cup {<<[s |-> s, d |-> d, c |-> c]>> : s \in Scores, d \in Scores, c \in Scores}

MetricKeys == {"sharpness", "dynamic_range", "color_richness", "overall_quality"}
\* f"{key}_percent"
PercentKey(k) ==
    CASE k = "sharpness" -> "sharpness_percent"
      [] k = "dynamic_range" -> "dynamic_range_percent"
      [] k = "color_richness" -> "color_richness_percent"
      [] k = "overall_quality" -> "overall_quality_percent"
PercentKeys == {PercentKey(k) : k \in MetricKeys}
BaseKey(pk) == CHOOSE k \in MetricKeys : PercentKey(k) = pk

\* round(n / m, 2) in hundredths, m > 0: the nearest integer to n / m; a value
\* half way goes up or down as the float happens to lie (tieUp)
Round2(n, m, tieUp) ==
    LET q == n \div m
        r == n - q * m
    IN IF 2 * r < m THEN q
       ELSE IF 2 * r > m THEN q + 1
       ELSE IF tieUp THEN q + 1 ELSE q

\* round(sharpness * 0.4 + dynamic_range * 0.35 + color_richness * 0.25, 2)
calculate_overall_quality(s, d, c, tieUp) == Round2(40 * s + 35 * d + 25 * c, 100, tieUp)

\* calculate_image_metrics: <<>> when it raises, else <<metrics>>
calculate_image_metrics(img, tieUp) ==
    IF img = <<>> THEN <<>>
    ELSE <<[k \in MetricKeys |->
              CASE k = "sharpness" -> img[1].s
                [] k = "dynamic_range" -> img[1].d
                [] k = "color_richness" -> img[1].c
                [] k = "overall_quality" ->
                     calculate_overall_quality(img[1].s, img[1].d, img[1].c, tieUp)]>>

\* tools.py:182-190: the entries of changes for given metrics
ChangesNoZeroGuard(om, em, tieUp) ==
    IF \E k \in MetricKeys : om[k] = 0 THEN <<>>
    ELSE <<[x \in MetricKeys \cup PercentKeys |->
              IF x \in MetricKeys THEN em[x] - om[x]
              ELSE Round2((em[BaseKey(x)] - om[BaseKey(x)]) * 10000, om[BaseKey(x)], tieUp)]>>
Changes(om, em, tieUp) ==
    <<[x \in MetricKeys \cup PercentKeys |->
         IF x \in MetricKeys THEN em[x] - om[x]
         ELSE LET k == BaseKey(x)
              IN IF om[k] # 0
                 THEN Round2((em[k] - om[k]) * 10000, om[k], tieUp)
                 ELSE 0]>>

\* compare_image_metrics(original_path, edited_path): any exception is raised
\* again as Exception("Failed to compare image metrics: ...")
compare_image_metrics(original, edited, tieO, tieE, tieP) ==
    LET om == calculate_image_metrics(original, tieO)
        em == calculate_image_metrics(edited, tieE)
    IN IF om = <<>> \/ em = <<>> THEN [kind |-> "raise"]
       ELSE LET ch == Changes(om[1], em[1], tieP)
            IN IF ch = <<>> THEN [kind |-> "raise"]
               ELSE [kind |-> "ok",
                     value |-> [original |-> om[1], edited |-> em[1], changes |-> ch[1]]]

InitCmp ==
    /\ InitUploads /\ InitDb
    /\ dbcall = NoCall
    /\ edit = NoEdit
    /\ val = NoVal
    /\ \E o \in Images, e \in Images :
         cmp = [original |-> o, edited |-> e, result |-> [kind |-> "none"]]

Compare ==
    /\ cmp.result.kind = "none"
    /\ \E tieO \in BOOLEAN, tieE \in BOOLEAN, tieP \in BOOLEAN :
         cmp' = [cmp EXCEPT !.result =
                   compare_image_metrics(cmp.original, cmp.edited, tieO, tieE, tieP)]
    /\ UNCHANGED <<upvars, dbvars, dbcall, edit, val>>

NextCmp == Compare
SpecCmp == InitCmp /\ [][NextCmp]_vars

\* ------------------------------------------- /image/edit, /image/generate
Hashes == {get_content_hash(c) : c \in Contents}
\* what gemini_llm_call gives: it raises, or returns None / "", blanks, or text
LlmOutcomes ==
    {[raised |-> TRUE, text |-> <<>>]}
    \cup {[raised |-> FALSE, text |-> t] : t \in {<<>>, <<" ">>, <<" ", "sharpen">>}}
\* what generate_image gives: it raises, or returns {"text": .., "image_path": ..}
GenOutcomes ==
    {[raised |-> TRUE, text |-> <<>>, image |-> FALSE]}
    \cup {[raised |-> FALSE, text |-> t, image |-> i] :
            t \in {<<>>, <<"edited">>}, i \in BOOLEAN}
\* the images the comparator may find behind the two paths
SampleImages == {<<>>, <<[s |-> 1, d |-> 2, c |-> 3]>>, <<[s |-> 2, d |-> 0, c |-> 3]>>}

\* str(e) of the exception a call raised
ExcText(src) == <<"error in ", src>>
\* not editing_instructions or not editing_instructions.strip()
IsBlank(text) == \A i \in 1..Len(text) : text[i] = " "

HttpError(code, detail) == [kind |-> "http", status |-> code, detail |-> detail]
\* main.ImageEditResponse
ImageEditResponse(success, image_path, text_response, error, metrics) ==
    [kind |-> "json", success |-> success, image_path |-> image_path,
     text_response |-> text_response, error |-> error, metrics |-> metrics]
\* main.py:367-371, 424-428: except Exception as e: the error response
ErrorResponseAsSuccess(src) ==
    ImageEditResponse(TRUE, <<>>, <<>>, <<ExcText(src)>>, <<>>)
ErrorResponse(src) ==
    ImageEditResponse(FALSE, <<>>, <<>>, <<ExcText(src)>>, <<>>)
\* f"/static/generated_images/{output_filename}"
GeneratedPath(prefix) == <<"/static/generated_images/", prefix, "uuid", ".png">>

\* main.py:278-280: no usable original image behind the record
OriginalImageMissingNoExists(row, fs) == row.image_path = <<>>
OriginalImageMissing(row, fs) ==
    row.image_path = <<>> \/ ~PathExists(fs, row.image_path)

\* main.py:341-363: metrics only if the image was generated and the comparison
\* completed; a failed comparison is logged and the request still succeeds
EditSuccessResponseFailing(text, compared, m) ==
    IF compared /\ m.kind = "raise" THEN ErrorResponse("compare")
    ELSE ImageEditResponse(TRUE, GeneratedPath("edited_"), text, <<>>,
                           IF compared THEN <<m.value>> ELSE <<>>)
EditSuccessResponse(text, compared, m) ==
    LET metrics == IF compared /\ m.kind = "ok" THEN <<m.value>> ELSE <<>>
    IN ImageEditResponse(TRUE, GeneratedPath("edited_"), text, <<>>, metrics)

\* the stored tables /image/edit may meet: none, a record without image_path
\* (store_analysis's default), a record with one
EditTables ==
    LET h == get_content_hash("img1")
        fn == <<"a", ".jpg">>
    IN {{},
        StoreRows({}, 1, 0, "ip1", fn, h, WarmText, <<>>, <<>>),
        StoreRows({}, 1, 0, "ip1", fn, h, WarmText, <<"exif_context">>,
                  stored_image_path(h, fn))}

InitEdit ==
    /\ pc = [r \in Reqs |-> "idle"]
    /\ up = [r \in Reqs |-> NoLocals]
    /\ out = [r \in Reqs |-> <<>>]
    /\ status = [r \in Reqs |-> 0]
    /\ hist = [r \in Reqs |-> NoHist]
    /\ cache_stats = [hits |-> 0, misses |-> 0, uploads |-> 0]
    /\ tempfiles = {}
    /\ table \in EditTables
    /\ files \in {{}, {[path |-> stored_image_path(get_content_hash("img1"), <<"a", ".jpg">>),
                        data |-> "img1", writes |-> 1]}}
    /\ nextId = Cardinality(table) + 1
    /\ stored = [i \in 1..Cardinality(table) |-> [content |-> "img1", text |-> WarmText]]
    /\ now = 0
    /\ tieBreak \in {"low_id", "high_id"}
    /\ InitAux

Answer(base, raised, resp) ==
    [base EXCEPT !.pc = "done", !.raised = raised, !.resp = resp]

\* main.py:265-309: /image/edit up to the await of gemini_llm_call
EditBegin ==
    /\ edit.pc \in {"idle", "done"}
    /\ \E h \in Hashes, dbOk \in BOOLEAN, mkOk \in BOOLEAN :
         LET cached_analysis == IF dbOk THEN get_analysis_by_hash(table, h, tieBreak)
                                ELSE <<>>
             base == [NoEdit EXCEPT !.kind = "edit", !.file_hash = h,
                                    !.cached = cached_analysis]
         IN edit' =
              IF cached_analysis = <<>>
              THEN Answer(base, IF dbOk THEN "none" ELSE "db",
                          HttpError(404, "Couldn't find analysis for the file"))
              ELSE IF OriginalImageMissing(cached_analysis[1], files)
              THEN Answer(base, "none",
                          HttpError(404, "Original image not found. Please re-upload the image."))
              ELSE IF ~mkOk
              THEN Answer(base, "makedirs", ErrorResponse("makedirs"))
              ELSE [base EXCEPT !.pc = "llm", !.llmCalls = 1]
    /\ UNCHANGED <<upvars, dbvars, dbcall, cmp, val>>

\* main.py:310-371: /image/edit from the answer of gemini_llm_call on
EditFinish ==
    /\ edit.pc = "llm"
    /\ \E llm \in LlmOutcomes, gen \in GenOutcomes, outExists \in BOOLEAN,
          orig \in SampleImages, edited \in SampleImages, tie \in BOOLEAN :
         /\ outExists => (~gen.raised /\ gen.image)
         /\ edit' =
              IF llm.raised
              THEN Answer(edit, "llm",
                          HttpError(500, "Failed to generate editing instructions: error"))
              ELSE IF llm.text = <<>> \/ IsBlank(llm.text)
              THEN Answer(edit, "none",
                          HttpError(500, "Failed to generate editing instructions: AI returned empty response"))
              ELSE IF gen.raised
              THEN Answer([edit EXCEPT !.genCalls = 1], "generate_image",
                          ErrorResponse("generate_image"))
              ELSE LET compared == gen.image /\ outExists
                       m == compare_image_metrics(orig, edited, tie, tie, tie)
                   IN Answer([edit EXCEPT !.genCalls = 1,
                                          !.genImage = gen.image,
                                          !.outExists = outExists,
                                          !.cmpCalls = IF compared THEN 1 ELSE 0],
                             IF compared /\ m.kind = "raise" THEN "compare" ELSE "none",
                             EditSuccessResponse(gen.text, compared, m))
    /\ UNCHANGED <<upvars, dbvars, dbcall, cmp, val>>

\* main.py:374-428: /image/generate
GenerateImageFromText ==
    /\ edit.pc \in {"idle", "done"}
    /\ \E file \in {<<>>} \cup {<<ct>> : ct \in ContentTypes}, readOk \in BOOLEAN,
          mkOk \in BOOLEAN, gen \in GenOutcomes, unlinkOk \in BOOLEAN :
         LET hasInput == file # <<>> /\ IsImageType(file[1])
             base == [NoEdit EXCEPT !.kind = "generate"]
         IN edit' =
              IF hasInput /\ ~readOk
              THEN Answer(base, "read", ErrorResponse("read"))
              ELSE IF ~mkOk
              THEN Answer([base EXCEPT !.tempLeft = hasInput], "makedirs",
                          ErrorResponse("makedirs"))
              ELSE IF gen.raised
              THEN Answer([base EXCEPT !.tempLeft = hasInput, !.genCalls = 1],
                          "generate_image", ErrorResponse("generate_image"))
              ELSE Answer([base EXCEPT !.tempLeft = hasInput /\ ~unlinkOk,
                                       !.genCalls = 1],
                          "none",
                          ImageEditResponse(TRUE, GeneratedPath("generated_"), gen.text,
                                            <<>>, <<>>))
    /\ UNCHANGED <<upvars, dbvars, dbcall, cmp, val>>

NextEdit == EditBegin \/ EditFinish \/ GenerateImageFromText
SpecEdit == InitEdit /\ [][NextEdit]_vars

\* ------------------------------------------------ AnalysisDatabase, called directly
MaxStores == 2     \* store_analysis calls in one behaviour

\* delete_analysis: DELETE ... WHERE id = ? AND ip_address = ?; rowcount > 0
delete_analysis_by_id(tbl, analysis_id, ip_address) ==
    [table |-> {row \in tbl : row.id # analysis_id},
     result |-> \E row \in tbl : row.id = analysis_id]
delete_analysis(tbl, analysis_id, ip_address) ==
    LET hit == {row \in tbl : row.id = analysis_id /\ row.ip_address = ip_address}
    IN [table |-> tbl \ hit, result |-> Cardinality(hit) > 0]

\* db.store_analysis(...), returning lastrowid
DbStore ==
    /\ nextId <= MaxStores
    /\ \E ip \in IPs, fn \in {<<"a", ".jpg">>}, h \in Hashes,
          exif \in {<<>>, <<"exif_context">>}, withPath \in BOOLEAN :
         LET path == IF withPath THEN stored_image_path(h, fn) ELSE <<>>
             after == StoreRows(table, nextId, now, ip, fn, h, <<"x">>, exif, path)
         IN /\ table' = after
            /\ dbcall' = [op |-> "store", result |-> nextId,
                          before |-> table, after |-> after]
    /\ stored' = Append(stored, [content |-> "", text |-> <<"x">>])
    /\ nextId' = nextId + 1
    /\ UNCHANGED <<upvars, now, tieBreak, cmp, edit, val>>

\* db.get_analysis_by_hash(file_hash)
DbGet ==
    /\ \E h \in Hashes :
         dbcall' = [op |-> "get", file_hash |-> h,
                    result |-> get_analysis_by_hash(table, h, tieBreak),
                    before |-> table, after |-> table]
    /\ UNCHANGED <<upvars, dbvars, cmp, edit, val>>

\* db.delete_analysis(analysis_id, ip_address)
DbDelete ==
    /\ \E id \in 1..(MaxStores + 1), ip \in IPs :
         LET got == delete_analysis(table, id, ip)
         IN /\ table' = got.table
            /\ dbcall' = [op |-> "delete", id |-> id, ip |-> ip, result |-> got.result,
                          before |-> table, after |-> got.table]
    /\ UNCHANGED <<upvars, nextId, stored, now, tieBreak, cmp, edit, val>>

NextDb == DbStore \/ DbGet \/ DbDelete \/ Tick
SpecDb == Init /\ [][NextDb]_vars

\* -------------------------------------------- evals: validate_json_structure
\* JSON values as json.loads builds them: None, int, bool, str, list, dict
JNull == [t |-> "null"]
JNum == [t |-> "num"]
JBool == [t |-> "bool"]
JStr(toks) == [t |-> "str", s |-> toks]
JList(items) == [t |-> "list", items |-> items]
JDict(f) == [t |-> "dict", f |-> f]

\* evals/config.py: EXPECTED_JSON_SCHEMA, in the order the dict holds its keys
BulletSchema ==
    <<[key |-> "technical", type |-> "str", nested |-> <<>>],
      [key |-> "artistic", type |-> "str", nested |-> <<>>],
      [key |-> "best_practice", type |-> "str", nested |-> <<>>],
      [key |-> "next_step", type |-> "str", nested |-> <<>>]>>
EXPECTED_JSON_SCHEMA ==
    <<[key |-> "overall_impression", type |-> "str", nested |-> <<>>],
      [key |-> "concise_bullet_points", type |-> "nested", nested |-> BulletSchema]>>
\* the same schema with the nested entry first, and one that asks for an int
Schemas ==
    {EXPECTED_JSON_SCHEMA,
     <<EXPECTED_JSON_SCHEMA[2], EXPECTED_JSON_SCHEMA[1]>>,
     <<[key |-> "overall_impression", type |-> "int", nested |-> <<>>]>>}

\* the texts given to the validator: <<"json", v>> is the JSON text of value v;
\* the empty text, a lone brace and a value followed by more text are not JSON
BulletKeys == {BulletSchema[i].key : i \in 1..Len(BulletSchema)}
BulletDicts ==
    {JDict(f) : f \in UNION {[K -> {JStr(<<"x">>), JNum}] : K \in SUBSET BulletKeys}}
Optional(S) == {<<>>} \cup {<<v>> : v \in S}
TopDict(o, c, e) ==
    LET K == (IF o # <<>> THEN {"overall_impression"} ELSE {})
             \cup (IF c # <<>> THEN {"concise_bullet_points"} ELSE {})
             \cup (IF e # <<>> THEN {"camera"} ELSE {})
    IN JDict([k \in K |-> CASE k = "overall_impression" -> o[1]
                            [] k = "concise_bullet_points" -> c[1]
                            [] k = "camera" -> e[1]])
JsonValues ==
    {JNull, JNum, JBool, JStr(<<"x">>), JStr(<<"an ", "overall_impression">>),
     JList(<<>>), JList(<<JStr(<<"overall_impression">>)>>)}
    \cup {TopDict(o, c, e) :
            o \in Optional({JStr(<<"x">>), JNum, JBool, JNull}),
            c \in Optional({JStr(<<"x">>), JList(<<>>)} \cup BulletDicts),
            e \in Optional({JNum})}
JsonTexts ==
    {<<"json", v>> : v \in JsonValues} \cup {<<>>, <<"{">>, <<"json", JNull, "x">>}

\* json.loads: the value, or JSONDecodeError
json_loads(text) ==
    IF Len(text) = 2 /\ text[1] = "json" THEN [ok |-> TRUE, value |-> text[2]]
    ELSE [ok |-> FALSE, value |-> JNull]

\* isinstance(v, ty): bool is a subclass of int
IsInstance(v, ty) ==
    CASE ty = "str" -> v.t = "str"
      [] ty = "int" -> v.t \in {"num", "bool"}
      [] ty = "dict" -> v.t = "dict"
      [] ty = "list" -> v.t = "list"
      [] OTHER -> FALSE

\* key in data: dict keys, list elements, substring of a str; TypeError otherwise
KeyIn(key, data) ==
    CASE data.t = "dict" -> key \in DOMAIN data.f
      [] data.t = "list" -> \E i \in 1..Len(data.items) : data.items[i] = JStr(<<key>>)
      [] data.t = "str" -> \E i \in 1..Len(data.s) : data.s[i] = key
      [] OTHER -> FALSE

Return(ok, msg) == [kind |-> "return", ok |-> ok, msg |-> msg]
Raise(exc) == [kind |-> "raise", exc |-> exc]
Pass == [kind |-> "pass"]

\* validation.py:39-47: the nested loop; Pass when every nested entry is right
RECURSIVE CheckNested(_, _, _, _)
CheckNested(d, key, nested, j) ==
    IF j > Len(nested) THEN Pass
    ELSE LET nested_key == nested[j].key
         IN IF nested_key \notin DOMAIN d.f
            THEN Return(FALSE, <<"Missing nested field: ", key, ".", nested_key>>)
            ELSE IF ~IsInstance(d.f[nested_key], nested[j].type)
            THEN Return(FALSE, <<"Field '", key, ".", nested_key,
                                 "' should be type ", nested[j].type>>)
            ELSE CheckNested(d, key, nested, j + 1)

\* validation.py:30-53: the loop over the schema's entries
RECURSIVE CheckFields(_, _, _)
CheckFields(data, schema, i) ==
    IF i > Len(schema) THEN Return(TRUE, <<>>)
    ELSE LET key == schema[i].key
         IN IF data.t \notin {"dict", "list", "str"} THEN Raise("TypeError")
            ELSE IF ~KeyIn(key, data)
            THEN Return(FALSE, <<"Missing required field: ", key>>)
            ELSE IF data.t # "dict" THEN Raise("TypeError")
            ELSE IF schema[i].type = "nested"
            THEN IF data.f[key].t # "dict"
                 THEN Return(FALSE, <<"Field '", key, "' should be a dictionary">>)
                 ELSE LET inner == CheckNested(data.f[key], key, schema[i].nested, 1)
                      IN IF inner = Pass THEN CheckFields(data, schema, i + 1)
                         ELSE inner
            ELSE IF ~IsInstance(data.f[key], schema[i].type)
            THEN Return(FALSE, <<"Field '", key, "' should be type ", schema[i].type>>)
            ELSE CheckFields(data, schema, i + 1)

validate_json_structure(response_text, expected_schema) ==
    LET parsed == json_loads(response_text)
    IN IF ~parsed.ok THEN Return(FALSE, <<"Invalid JSON: ", "JSONDecodeError">>)
       ELSE CheckFields(parsed.value, expected_schema, 1)

InitVal ==
    /\ InitUploads /\ InitDb
    /\ dbcall = NoCall
    /\ cmp = NoCmp
    /\ edit = NoEdit
    /\ \E text \in JsonTexts, schema \in Schemas :
         val = [text |-> text, schema |-> schema, result |-> [kind |-> "none"]]

Validate ==
    /\ val.result.kind = "none"
    /\ val' = [val EXCEPT !.result = validate_json_structure(val.text, val.schema)]
    /\ UNCHANGED <<upvars, dbvars, dbcall, cmp, edit>>

NextVal == Validate
SpecVal == InitVal /\ [][NextVal]_vars

\* --------------------------------------------------------------- /cache/stats
\* main.py:449-468: GET /cache/stats; the handler only reads, and has no await, so
\* it answers from whatever state the uploads have reached. hit_rate_percent is in
\* hundredths of a percent.
get_cache_stats(fs, cs, tieUp) ==
    LET unique_images == Cardinality(fs)
        total_requests == cs.hits + cs.misses
    IN [cache_hits |-> cs.hits,
        cache_misses |-> cs.misses,
        total_uploads |-> cs.uploads,
        hit_rate_percent |-> IF total_requests > 0
                             THEN Round2(cs.hits * 10000, total_requests, tieUp)
                             ELSE 0,
        unique_images_stored |-> unique_images,
        deduplication_savings |-> IF cs.uploads > 0 THEN cs.uploads - unique_images
                                  ELSE 0]

\* ------------------------------------------------------------------ claims
OnHitPath(r) == r \in Accepted /\ up[r].cached # <<>>
OnMissPath(r) == r \in Accepted /\ up[r].cached = <<>>
\* the analysis text that was stored under the id of the row a request was served
ServedText(r) == stored[up[r].cached[1].id].text
ServedFor(r) == stored[up[r].cached[1].id].content
\* the text the 'chunk' events of a stream add up to
Replayed(r) == Flatten(ChunkContents(out[r]))

DetailedPart(t) == SubSeq(t, 1, FirstIndex(t, MARKER) - 1)
FromMarker(t) == SubSeq(t, FirstIndex(t, MARKER), Len(t))
IsSuffix(a, b) == Len(a) <= Len(b) /\ a = SubSeq(b, Len(b) - Len(a) + 1, Len(b))
\* no marker, or the part before the marker starts with the prefix and holds it once
WellFormedText(t) ==
    Contains(t, MARKER) =>
        /\ StartsWith(DetailedPart(t), PREFIX)
        /\ ~Contains(Tail(DetailedPart(t)), PREFIX)

C2_AnalyzerOnlyOnMiss ==
    \A r \in Reqs :
        /\ hist[r].analyzerCalls <= 1
        /\ hist[r].analyzerCalls = 1 =>
             /\ up[r].cached = <<>>
             /\ hist[r].hadRow => hist[r].lostLookup

C2_Witness ==
    \E r1, r2 \in Reqs :
        /\ r1 # r2
        /\ up[r1].file_hash = up[r2].file_hash
        /\ hist[r1].analyzerCalls = 1 /\ hist[r2].analyzerCalls = 1
        /\ ~hist[r1].hadRow /\ ~hist[r2].hadRow
        /\ pc[r1] = "done" /\ pc[r2] = "done"

\* C2 as first stated: the analyzer is invoked at most once per content hash.
C2_Original ==
    \A r1, r2 \in Reqs :
        (/\ hist[r1].analyzerCalls > 0 /\ hist[r2].analyzerCalls > 0
         /\ up[r1].file_hash = up[r2].file_hash) => r1 = r2

\* C3: two uploads of the same bytes that looked up the same table contents, with
\* the database answering both or failing both, get the same hit/miss outcome, the
\* same record and the same replayed chunks, whatever their file names and client
\* addresses.
C3_KeyIsContentHash ==
    \A r1, r2 \in Accepted :
        (/\ up[r1].content = up[r2].content
         /\ hist[r1].seenVer = hist[r2].seenVer
         /\ hist[r1].lostLookup = hist[r2].lostLookup) =>
            /\ up[r1].cached = up[r2].cached
            /\ (pc[r1] = "done" /\ pc[r2] = "done" /\ up[r1].cached # <<>>) =>
                 ChunkContents(out[r1]) = ChunkContents(out[r2])

C3_Witness ==
    \E r1, r2 \in Accepted :
        /\ up[r1].content = up[r2].content
        /\ hist[r1].seenVer = hist[r2].seenVer
        /\ up[r1].ip # up[r2].ip
        /\ up[r1].filename # up[r2].filename
        /\ up[r1].cached # <<>> /\ up[r2].cached # <<>>
        /\ pc[r1] = "done" /\ pc[r2] = "done"

\* C4: an upload on the cache-hit path is served an analysis that was stored for
\* its own content, never one stored for another content.
C4_NoCrossContentHit ==
    \A r \in Reqs : OnHitPath(r) => ServedFor(r) = up[r].content

C4_Witness ==
    \E r \in Reqs :
        /\ OnHitPath(r) /\ pc[r] = "done"
        /\ \E row \in table :
             /\ row.file_hash # up[r].file_hash
             /\ row.ip_address = up[r].ip
             /\ row.filename = up[r].filename

\* C5: on the miss path the 'chunk' events are the analyzer's chunks, one event per
\* chunk, same content, same order, and a chunk is emitted before the next one is
\* asked for.
C5_RelayInOrder ==
    \A r \in Reqs :
        OnMissPath(r) =>
            LET chunks == up[r].analysis_chunks
                emitted == ChunkContents(out[r])
            IN /\ Len(emitted) <= Len(chunks)
               /\ emitted = SubSeq(chunks, 1, Len(emitted))
               /\ pc[r] # "emit" => emitted = chunks
               /\ pc[r] = "emit" => Len(chunks) = Len(emitted) + 1
               /\ hist[r].requested <= Len(emitted) + 1

C5_Witness ==
    \E r \in Reqs :
        /\ OnMissPath(r) /\ pc[r] = "done"
        /\ Len(up[r].analysis_chunks) = 2
        /\ up[r].analysis_chunks[1] # up[r].analysis_chunks[2]
        /\ ChunkContents(out[r]) = up[r].analysis_chunks

\* C8: a request whose content type is missing or does not start with "image/" is
\* answered 400 in a step that reads no body and changes neither cache_stats, the
\* table, the stored images nor the temporary files, and it does nothing afterwards.
C8_RejectNoEffect ==
    [][\A r \in Reqs :
        /\ (pc[r] = "idle" /\ pc'[r] # "idle" /\ up'[r].ctype \in BadTypes) =>
             /\ status'[r] = 400
             /\ pc'[r] = "rejected"
             /\ ~up'[r].bodyRead
             /\ hist'[r].lookups = 0
             /\ UNCHANGED <<cache_stats, table, nextId, stored, files, tempfiles>>
        /\ pc[r] = "rejected" =>
             /\ pc'[r] = "rejected"
             /\ status'[r] = 400
             /\ up'[r] = up[r] /\ hist'[r] = hist[r] /\ out'[r] = <<>>
             /\ r \notin tempfiles']_vars

C8_Witness ==
    \E r, q \in Reqs :
        /\ pc[r] = "rejected" /\ status[r] = 400
        /\ up[r].ctype = <<"image">>
        /\ pc[q] = "done" /\ r < q

Abs(n) == IF n < 0 THEN 0 - n ELSE n
CmpReadable == cmp.original # <<>> /\ cmp.edited # <<>>

\* C6 (as amended): when both images can be measured the result has exactly the
\* entries original, edited and changes; for every metric key changes[key] is
\* edited[key] - original[key] and changes[key_percent] is that difference over
\* original[key] times 100, rounded to two decimals (within half a hundredth of
\* the quotient), and 0 when original[key] is 0: a zero original raises nothing.
C6_Deltas ==
    (cmp.result.kind # "none" /\ CmpReadable) =>
        /\ cmp.result.kind = "ok"
        /\ DOMAIN cmp.result.value = {"original", "edited", "changes"}
        /\ LET o == cmp.result.value.original
               e == cmp.result.value.edited
               ch == cmp.result.value.changes
           IN /\ DOMAIN o = MetricKeys /\ DOMAIN e = MetricKeys
              /\ DOMAIN ch = MetricKeys \cup PercentKeys
              /\ o.sharpness = cmp.original[1].s /\ e.sharpness = cmp.edited[1].s
              /\ \A k \in MetricKeys :
                   /\ ch[k] = e[k] - o[k]
                   /\ o[k] = 0 => ch[PercentKey(k)] = 0
                   /\ o[k] # 0 =>
                        2 * Abs(ch[PercentKey(k)] * o[k] - (e[k] - o[k]) * 10000) <= o[k]

C6_Witness ==
    /\ cmp.result.kind = "ok"
    /\ cmp.result.value.original.sharpness = 0
    /\ cmp.result.value.changes.sharpness > 0
    /\ cmp.result.value.original.dynamic_range = 3
    /\ cmp.result.value.changes.dynamic_range = -1
    /\ cmp.result.value.changes.dynamic_range_percent = -3333

\* C6 as first stated: changes[key_percent] is exactly the quotient times 100.
C6_Original ==
    (cmp.result.kind # "none" /\ CmpReadable) =>
        /\ cmp.result.kind = "ok"
        /\ DOMAIN cmp.result.value = {"original", "edited", "changes"}
        /\ LET o == cmp.result.value.original
               e == cmp.result.value.edited
               ch == cmp.result.value.changes
           IN \A k \in MetricKeys :
                /\ ch[k] = e[k] - o[k]
                /\ o[k] = 0 => ch[PercentKey(k)] = 0
                /\ o[k] # 0 => ch[PercentKey(k)] * o[k] = (e[k] - o[k]) * 10000

IsErrorResponse(resp, src) ==
    /\ resp.kind = "json"
    /\ resp.success = FALSE
    /\ resp.image_path = <<>>
    /\ resp.text_response = <<>>
    /\ resp.error = <<ExcText(src)>>

\* C7 (as amended): /image/generate answers any exception with the error response
\* (success False, no image_path, no text_response, error the exception text).
\* /image/edit does so for the exceptions that reach its outer handler (os.makedirs,
\* generate_image); an exception of gemini_llm_call is answered HTTP 500, one of
\* the database lookup HTTP 404, and one of compare_image_metrics is swallowed:
\* success True with metrics None.
C7_ErrorField ==
    edit.pc = "done" =>
        /\ (edit.kind = "generate" /\ edit.raised # "none") =>
             IsErrorResponse(edit.resp, edit.raised)
        /\ (edit.kind = "edit" /\ edit.raised \in {"makedirs", "generate_image"}) =>
             IsErrorResponse(edit.resp, edit.raised)
        /\ (edit.kind = "edit" /\ edit.raised = "llm") =>
             (edit.resp.kind = "http" /\ edit.resp.status = 500)
        /\ (edit.kind = "edit" /\ edit.raised = "db") =>
             (edit.resp.kind = "http" /\ edit.resp.status = 404)
        /\ (edit.kind = "edit" /\ edit.raised = "compare") =>
             (edit.resp.kind = "json" /\ edit.resp.success /\ edit.resp.metrics = <<>>)

C7_Witness ==
    /\ edit.pc = "done" /\ edit.kind = "edit"
    /\ edit.raised = "generate_image"
    /\ edit.llmCalls = 1 /\ edit.genCalls = 1
    /\ IsErrorResponse(edit.resp, "generate_image")

\* C7 as first stated: in /image/generate any exception, and in /image/edit any
\* exception that is not an HTTPException, gives the error response.
C7_Original ==
    (edit.pc = "done" /\ edit.raised # "none") =>
        IsErrorResponse(edit.resp, edit.raised)

\* C9: /image/edit answers 404 without an LLM call or an image-generation call when
\* no record exists for the hash, when the lookup raises, or when the record's
\* image_path is empty or names no existing file.
C9_NotFound ==
    edit.kind = "edit" =>
        LET got == SelectByHash(table, edit.file_hash, tieBreak)
            unusable ==
                \/ got = <<>>
                \/ edit.raised = "db"
                \/ got[1].image_path = <<>>
                \/ ~PathExists(files, got[1].image_path)
        IN unusable =>
             /\ edit.pc = "done"
             /\ edit.resp.kind = "http" /\ edit.resp.status = 404
             /\ edit.llmCalls = 0 /\ edit.genCalls = 0

C9_Witness ==
    /\ edit.kind = "edit" /\ edit.pc = "done"
    /\ edit.raised = "none"
    /\ edit.cached # <<>>
    /\ edit.cached[1].image_path # <<>>
    /\ ~PathExists(files, edit.cached[1].image_path)
    /\ edit.resp.kind = "http" /\ edit.resp.status = 404
    /\ edit.llmCalls = 0 /\ edit.genCalls = 0

\* C10: delete_analysis(id, ip) removes only rows that have both the given id and
\* the given ip_address; it returns True exactly when it removed a row, and when it
\* returns False the table is as it was.
C10_DeleteOwnRowOnly ==
    dbcall.op = "delete" =>
        LET removed == dbcall.before \ dbcall.after
        IN /\ dbcall.after \subseteq dbcall.before
           /\ \A row \in removed : row.id = dbcall.id /\ row.ip_address = dbcall.ip
           /\ dbcall.result <=> removed # {}
           /\ ~dbcall.result => dbcall.after = dbcall.before
           /\ table = dbcall.after

C10_Witness ==
    /\ dbcall.op = "delete"
    /\ dbcall.result = FALSE
    /\ \E row \in dbcall.before : row.id = dbcall.id /\ row.ip_address # dbcall.ip
    /\ dbcall.after = dbcall.before

\* the image contents (equally, the content hashes) uploaded so far
UploadedContents == {up[r].content : r \in Accepted}

\* C11: starting from an empty upload directory, unique_images_stored of
\* /cache/stats equals the number of distinct image contents uploaded so far.
C11_UniqueImagesCount ==
    \A tieUp \in BOOLEAN :
        get_cache_stats(files, cache_stats, tieUp).unique_images_stored
            = Cardinality({get_content_hash(c) : c \in UploadedContents})

\* the rows a direct get_analysis_by_hash call could choose from
GetMatches == {row \in dbcall.before : row.file_hash = dbcall.file_hash}

\* C12 (as amended): get_analysis_by_hash(h) returns None when no row has
\* file_hash h; otherwise it returns a row with file_hash h whose created_at, a
\* timestamp in whole seconds, is the largest among those rows, with exif_data
\* decoded from its JSON text. That row is the most recently stored one whenever
\* no other row with file_hash h was stored in the same second.
C12_NewestByTimestamp ==
    dbcall.op = "get" =>
        /\ (GetMatches = {}) <=> (dbcall.result = <<>>)
        /\ GetMatches # {} =>
             \E row \in GetMatches :
                /\ dbcall.result[1].id = row.id
                /\ dbcall.result[1].ip_address = row.ip_address
                /\ dbcall.result[1].analysis_text = row.analysis_text
                /\ dbcall.result[1].image_path = row.image_path
                /\ dbcall.result[1].exif_data =
                     (IF row.exif_data = <<>> THEN <<>> ELSE <<"dict", row.exif_data[2]>>)
                /\ \A o \in GetMatches : o.created_at <= row.created_at
                /\ (\A o \in GetMatches \ {row} : o.created_at < row.created_at)
                     => \A o \in GetMatches : o.id <= row.id

C12_Witness ==
    /\ dbcall.op = "get"
    /\ Cardinality(GetMatches) = 2
    /\ \E old \in GetMatches :
         /\ old.created_at < dbcall.result[1].created_at
         /\ old.id < dbcall.result[1].id
    /\ dbcall.result[1].exif_data = <<"dict", "exif_context">>

\* C12 as first stated: the row returned is the most recently stored row among
\* those with file_hash h.
C12_Original ==
    dbcall.op = "get" =>
        /\ (GetMatches = {}) <=> (dbcall.result = <<>>)
        /\ GetMatches # {} => \A o \in GetMatches : o.id <= dbcall.result[1].id

\* C13 (as amended): the analysis table holds at most one record per pair of
\* client address and content hash. Two records for one content hash come from
\* different addresses, and the later one was stored by an upload whose lookup
\* ran before the earlier record was stored or raised while it was there.
C13_OnePerAddressAndHash ==
    \A r1 \in table, r2 \in table :
        (r1.file_hash = r2.file_hash /\ r1.id < r2.id) =>
            /\ r1.ip_address # r2.ip_address
            /\ \E q \in Reqs :
                 /\ hist[q].storeOk
                 /\ up[q].file_hash = r2.file_hash
                 /\ up[q].ip = r2.ip_address
                 /\ (hist[q].lostLookup \/ hist[q].seenVer <= r1.id)

C13_Witness ==
    /\ \A q \in Reqs : pc[q] = "done" /\ hist[q].storeOk /\ ~hist[q].lostLookup
    /\ up[1].ip = up[2].ip
    /\ up[1].file_hash = up[2].file_hash
    /\ Cardinality(table) = 1

\* C13 as first stated: at most one record per content hash.
C13_Original ==
    \A r1 \in table, r2 \in table : r1.file_hash = r2.file_hash => r1 = r2

C15_StoredOnce ==
    [][/\ \A f \in files : f \in files'
       /\ \A f \in files' \ files : ~PathExists(files, f.path)
       /\ \A f \in files', g \in files' : f.path = g.path => f = g
       /\ \A r \in Reqs :
            pc'[r] \notin {"idle", "rejected"} =>
                \E f \in files' :
                   /\ f.path = stored_image_path(up'[r].file_hash, up'[r].filename)
                   /\ f.data = up'[r].content
                   /\ f.writes = 1]_vars

C15_Witness ==
    /\ pc[1] = "done" /\ OnMissPath(1)
    /\ pc[2] = "done" /\ OnHitPath(2)
    /\ up[1].content = up[2].content
    /\ file_extension(up[1].filename) = file_extension(up[2].filename)
    /\ Cardinality(files) = 1
    /\ \A f \in files : f.data = up[1].content /\ f.writes = 1

\* C16: in /image/edit a failure of compare_image_metrics does not fail the
\* request: the response is success True with metrics None; metrics is present
\* only if generate_image reported an image_path, the output file exists and the
\* comparison completed.
C16_MetricsOptional ==
    (edit.pc = "done" /\ edit.kind = "edit") =>
        /\ edit.raised = "compare" =>
             /\ edit.resp.kind = "json"
             /\ edit.resp.success
             /\ edit.resp.metrics = <<>>
             /\ edit.resp.error = <<>>
             /\ edit.resp.image_path = GeneratedPath("edited_")
        /\ (edit.resp.kind = "json" /\ edit.resp.metrics # <<>>) =>
             /\ edit.resp.success
             /\ edit.genImage /\ edit.outExists
             /\ edit.cmpCalls = 1
             /\ edit.raised = "none"

C16_Witness ==
    /\ edit.pc = "done" /\ edit.kind = "edit"
    /\ edit.genImage /\ edit.outExists /\ edit.cmpCalls = 1
    /\ edit.raised = "compare"
    /\ edit.resp.kind = "json" /\ edit.resp.success /\ edit.resp.metrics = <<>>

\* what the schema asks of the parsed value, entry by entry
EntryOk(data, e) ==
    /\ data.t = "dict"
    /\ e.key \in DOMAIN data.f
    /\ IF e.type = "nested"
       THEN /\ data.f[e.key].t = "dict"
            /\ \A j \in 1..Len(e.nested) :
                 /\ e.nested[j].key \in DOMAIN data.f[e.key].f
                 /\ IsInstance(data.f[e.key].f[e.nested[j].key], e.nested[j].type)
       ELSE IsInstance(data.f[e.key], e.type)
Conforms(text, schema) ==
    /\ json_loads(text).ok
    /\ \A i \in 1..Len(schema) : EntryOk(json_loads(text).value, schema[i])
FirstViolation(text, schema) ==
    CHOOSE i \in 1..Len(schema) :
        /\ ~EntryOk(json_loads(text).value, schema[i])
        /\ \A j \in 1..(i - 1) : EntryOk(json_loads(text).value, schema[j])

\* C17: validate_json_structure(text, schema) returns (True, "") iff text parses
\* as JSON and holds every schema key, top-level and nested, with a value of the
\* required type; otherwise it returns (False, msg), msg naming the first violation
\* in schema order.
C17_ValidatorReturns ==
    val.result.kind # "none" =>
        /\ val.result.kind = "return"
        /\ val.result.ok <=> Conforms(val.text, val.schema)
        /\ val.result.ok => val.result.msg = <<>>
        /\ ~val.result.ok =>
             IF ~json_loads(val.text).ok THEN val.result.msg[1] = "Invalid JSON: "
             ELSE Contains(val.result.msg,
                           val.schema[FirstViolation(val.text, val.schema)].key)

IsData(e, type) == e.line = "data" /\ e.type = type
IsPrefix(a, b) == Len(a) <= Len(b) /\ a = SubSeq(b, 1, Len(a))

\* the shape of a response stream as far as it has been sent
StreamShape(r) ==
    LET evs == out[r]
    IN /\ Len(evs) >= 1 => evs[1].line = "file_hash"
       /\ Len(evs) >= 2 => evs[2].line = "file_name"
       /\ \A i \in 3..Len(evs) : evs[i].line = "data"
       /\ (OnHitPath(r) /\ Len(evs) >= 3) =>
            /\ pc[r] = "done"
            /\ Len(evs) >= 6
            /\ IsData(evs[3], "cache_hit")
            /\ IsData(evs[4], "analyzing")
            /\ \A i \in 5..(Len(evs) - 1) : IsData(evs[i], "chunk")
            /\ IsData(evs[Len(evs)], "done")
       /\ (OnMissPath(r) /\ Len(evs) >= 3) =>
            /\ IsData(evs[3], "analyzing")
            /\ \A i \in 4..Len(evs) : ~IsData(evs[i], "analyzing")
       /\ pc[r] = "done" => (Len(evs) >= 4 /\ IsData(evs[Len(evs)], "done"))

\* C18: every /upload response stream begins with the file_hash event and then the
\* file_name event, before any data event; on the cache-hit path the data events
\* are 'cache_hit', 'analyzing', one or more 'chunk' and a final 'done', in that
\* order; on the miss path 'analyzing' comes before every 'chunk'. A stream only
\* grows at its end.
C18_StreamOrder ==
    /\ [](\A r \in Reqs : StreamShape(r))
    /\ [][\A r \in Reqs : IsPrefix(out[r], out'[r])]_vars

C18_Witness ==
    /\ pc[1] = "done" /\ OnMissPath(1) /\ Len(ChunkContents(out[1])) = 2
    /\ pc[2] = "done" /\ OnHitPath(2)
    /\ Len(out[2]) = 8
    /\ out[2][5].content[1] = PREFIX
    /\ out[2][6].content = <<MARKER>>

====
